---- MODULE Spec2Model ----
(***************************************************************************)
(* Backup rotator: the retention engine of src/domain/BackupRotator.py     *)
(* (run -> _rotate_paths -> _rotate_path -> count pass, age pass) and the  *)
(* config loader of src/domain/config/ConfigFile.py (_load, _consume), with  *)
(* the duration formatters and the creation-date detection of               *)
(* src/domain/Util.py.                                                       *)
(***************************************************************************)
EXTENDS Integers, Sequences, FiniteSets, TLC

\* ------------------------------------------------------------------ bounds
\* Number of filesystem entries that exist under the watched directories.
NumItems == 3
\* Largest value of the maximum-age key (days) a config is given.
MaxMaximumAge == 1
\* Largest integer a config document gives a key.
MaxDocInt == 1
\* Largest count of one unit in the durations that are formatted.
MaxUnitCount == 2
\* Largest timestamp of an item whose creation date is detected.
MaxStamp == 3

\* -------------------------------------------------------- program constants
SecondsPerDay == 86400
\* "key not in config.keys()" for the integer-valued keys of a config dict.
Absent == -1
\* best_item = None in _pick_oldest_item.
NoItem == 0

HalfDay == SecondsPerDay \div 2
\* The clock reading of the run, time.time().
Now0 == 8 * HalfDay

Items == 1..NumItems
\* The directories that exist; any other path is not a directory.
Dirs == {1, 2}
\* A watched path that is missing when it is rotated.
MissingDir == 0
Kinds == {"file", "directory"}

\* Ages the entries are created with: 1.5 days and 2 days.
AgeChoices == {3 * HalfDay, 4 * HalfDay}

VARIABLES
    globalDryRun,       \* self.__dry_run
    configs,            \* self.__configs
    fs,                 \* the filesystem: entry -> [dir, kind, ctime, exists]
    now,                \* time.time()
    pc,                 \* position of the run
    configIndex,        \* config_index of run()'s loop (1-based)
    pathIndex,          \* position of _rotate_paths' loop (1-based)
    children,           \* local: children
    purge_count,        \* local: purge_count
    queue,              \* local: children_to_purge / children_to_delete
    loopIndex,          \* local: position of the current for loop (1-based)
    pass,               \* history: the pass in progress or last finished
    purgeLog,           \* history: the _remove_file/_remove_directory calls
    fs0,                \* history: the filesystem when the run began
    data,               \* ConfigFile.__data, the parsed document
    cf,                 \* ConfigFile's fields
    lpc,                \* position of ConfigFile.__init__
    error,              \* message of the assertion that failed, "" if none
    seconds,            \* argument of seconds_to_time_string: [t, n]
    formatted,          \* what each seconds_to_time_string returned or raised
    statItem,           \* the Path given to detect_item_creation_date
    stamp               \* what detect_item_creation_date returned or raised

rotVars == <<globalDryRun, configs, fs, now, pc, configIndex, pathIndex,
             children, purge_count, queue, loopIndex, pass, purgeLog, fs0>>

loadVars == <<data, cf, lpc, error>>

utilVars == <<seconds, formatted, statItem, stamp>>

\* ------------------------------------------------------------ pure helpers
Min(a, b) == IF a < b THEN a ELSE b
Max(a, b) == IF a > b THEN a ELSE b

\* int(x / y) of Python: truncation toward zero.
IntDiv(a, b) == IF a >= 0 THEN a \div b ELSE -((-a) \div b)

SeqToSet(s) == {s[k] : k \in 1..Len(s)}

\* list.remove(x): drops the first occurrence.
RECURSIVE ListRemove(_, _)
ListRemove(s, x) ==
    IF s = <<>> THEN <<>>
    ELSE IF Head(s) = x THEN Tail(s)
    ELSE <<Head(s)>> \o ListRemove(Tail(s), x)

IsFile(f, i) == f[i].exists /\ f[i].kind = "file"
IsDir(f, i) == f[i].exists /\ f[i].kind = "directory"
\* os.path.isdir of a watched path.
PathIsDir(p) == p \in Dirs

\* os.listdir order is modelled as the order of the entry numbers.
ItemSeq == [i \in Items |-> i]

\* The candidates without the test of the kind.
GatherAnyKind(f, config, path) ==
    SelectSeq(ItemSeq, LAMBDA i : f[i].exists /\ f[i].dir = path)

\* _gather_rotation_candidates
GatherRotationCandidates(f, config, path) ==
    SelectSeq(ItemSeq, LAMBDA i :
        /\ f[i].exists
        /\ f[i].dir = path
        /\ IF config.target_type = "file" THEN IsFile(f, i) ELSE IsDir(f, i))

\* _determine_minimum_items
DetermineMinimumItems(config) ==
    IF config.minimum_items # Absent THEN config.minimum_items ELSE 0

\* _detect_item_date: os.path.getctime
DetectItemDate(f, i) == f[i].ctime

\* _detect_item_age_seconds
DetectItemAgeSeconds(f, t, i) == t - DetectItemDate(f, i)

\* _detect_item_age_days
DetectItemAgeDays(f, t, i) == IntDiv(DetectItemAgeSeconds(f, t, i), SecondsPerDay)


\* The scan's comparison the other way round.
IsOlderReversed(ctime, best_ctime) == ctime > best_ctime

\* The comparison of _pick_oldest_item's scan.
IsOlder(ctime, best_ctime) == ctime < best_ctime

\* _pick_oldest_item: the scan over items, from position k with best so far.
RECURSIVE PickScan(_, _, _, _)
PickScan(f, items, k, best) ==
    IF k > Len(items) THEN best
    ELSE PickScan(f, items, k + 1,
            IF best = NoItem \/ IsOlder(DetectItemDate(f, items[k]), DetectItemDate(f, best))
            THEN items[k] ELSE best)

PickOldestItem(f, items) == PickScan(f, items, 1, NoItem)


\* The age test with >= in place of >.
OldEnoughInclusive(age_days, max_age_days) == age_days >= max_age_days

\* The test of the age pass.
OldEnough(age_days, max_age_days) == age_days > max_age_days


\* The dry-run decision without the global flag.
PerformsIgnoringGlobal(g, config) == config.dry_run # "true"

\* The dry-run decision without the config's flag.
PerformsIgnoringConfig(g, config) == ~g

\* The dry-run decision of _remove_file / _remove_directory: TRUE = delete.
Performs(g, config) ==
    IF g THEN FALSE
    ELSE IF config.dry_run = "true" THEN FALSE
    ELSE TRUE

\* _remove_file that only logs.
RemoveFileLogsOnly(f, g, config, i) == f

\* _remove_file: os.remove unless suppressed.
RemoveFile(f, g, config, i) ==
    IF Performs(g, config) THEN [f EXCEPT ![i].exists = FALSE] ELSE f

\* _remove_directory: shutil.rmtree unless suppressed.
RemoveDirectory(f, g, config, i) ==
    IF Performs(g, config) THEN [f EXCEPT ![i].exists = FALSE] ELSE f

\* _remove_item: dispatch on the kind; neither file nor directory raises.
RemoveItemRaises(f, i) == ~IsFile(f, i) /\ ~IsDir(f, i)
RemoveItem(f, g, config, i) ==
    IF IsFile(f, i) THEN RemoveFile(f, g, config, i)
    ELSE RemoveDirectory(f, g, config, i)

\* ------------------------------------------------------------------ inputs
ConfigsWith(dry, mins, maxis, ages, targets, pathseqs) ==
    [dry_run : dry, minimum_items : mins, maximum_items : maxis,
     maximum_age : ages, target_type : targets, date_detection : {"file"},
     paths : pathseqs]

MinimumItemsChoices == {Absent} \cup (0..NumItems)
MaximumItemsChoices == {Absent} \cup (1..(NumItems - 1))
MaximumAgeChoices == {Absent} \cup (1..MaxMaximumAge)
DryRunChoices == {"absent", "true", "false"}

\* Runs of one config over one watched path, every retention setting.
RetentionRuns ==
    {[dry_run |-> FALSE, configs |-> <<c>>] :
        c \in ConfigsWith({"absent"}, MinimumItemsChoices, MaximumItemsChoices,
                          MaximumAgeChoices, Kinds, {<<1>>})}

\* Runs of two configs, every combination of the three dry-run settings; the
\* second config keeps one item of the first watched directory.
DryRunRuns ==
    {[dry_run |-> g,
      configs |-> <<c, [c EXCEPT !.dry_run = d, !.minimum_items = 1,
                                 !.maximum_items = 1, !.maximum_age = Absent,
                                 !.paths = <<1>>]>>] :
        g \in BOOLEAN, d \in DryRunChoices,
        c \in ConfigsWith(DryRunChoices, {Absent}, {Absent, 1}, {Absent, 1},
                          Kinds, {<<1, 2>>})}

\* Runs of two configs, the first with a missing directory among its paths.
MissingPathRuns ==
    {[dry_run |-> FALSE, configs |-> <<c, [c EXCEPT !.paths = <<1>>]>>] :
        c \in ConfigsWith({"absent"}, {Absent}, {1}, {Absent}, Kinds,
                          {<<MissingDir, 1>>, <<1, MissingDir>>})}

\* Runs of one age-only config that lists the same directory twice.
RepeatRuns ==
    {[dry_run |-> FALSE, configs |-> <<c>>] :
        c \in ConfigsWith({"absent", "true"}, {Absent, 2}, {Absent}, {1}, Kinds,
                          {<<1, 1>>})}

RunInputs == RetentionRuns \cup DryRunRuns \cup MissingPathRuns \cup RepeatRuns

\* History: the pass that ran before the one on record.
NoPrior == [kind |-> "none", config |-> 0, path |-> 0, deleted |-> {}]

NoPass == [kind |-> "none", config |-> 0, path |-> 0, gathered |-> <<>>,
           before |-> {}, atPathStart |-> 0, done |-> FALSE, prior |-> NoPrior]

\* The entries of directory 1 come first; only the last entry may be in 2.
FsChoices ==
    {f \in [Items -> [dir : Dirs, kind : Kinds, ctime : {Now0 - a : a \in AgeChoices},
                      exists : {TRUE}]] :
        \A i \in Items : i < NumItems => f[i].dir = 1}

Existing(f) == {i \in Items : f[i].exists}

\* ------------------------------------------------------------------- Init
\* BackupRotator.__init__
RotatorInit ==
    /\ globalDryRun = FALSE
    /\ configs = <<>>
    /\ fs \in FsChoices
    /\ now = Now0
    /\ pc = "new"
    /\ configIndex = 0
    /\ pathIndex = 0
    /\ children = <<>>
    /\ purge_count = 0
    /\ queue = <<>>
    /\ loopIndex = 0
    /\ pass = NoPass
    /\ purgeLog = {}
    /\ fs0 = fs

Config == configs[configIndex]
Path == Config.paths[pathIndex]

\* History: what becomes the prior pass when the record is written anew.
PriorPass ==
    IF pass.kind = "none" THEN pass.prior
    ELSE [kind |-> pass.kind, config |-> pass.config, path |-> pass.path,
          deleted |-> pass.before \ Existing(fs)]

\* ---------------------------------------------------------------- actions
\* run(): store the flag and the configs, begin the loop over the configs.
Run ==
    /\ pc = "new"
    /\ \E in \in RunInputs :
        /\ globalDryRun' = in.dry_run
        /\ configs' = in.configs
        /\ configIndex' = 1
        /\ pc' = IF in.configs = <<>> THEN "done" ELSE "config"
    /\ UNCHANGED <<fs, now, pathIndex, children, purge_count, queue, loopIndex,
                   pass, purgeLog, fs0, loadVars, utilVars>>

\* Where the run goes after a watched path is finished: the next path, the
\* next config, or the end of run().
AfterPath ==
    IF pathIndex < Len(Config.paths)
    THEN /\ pathIndex' = pathIndex + 1
         /\ pc' = "path"
         /\ UNCHANGED configIndex
    ELSE IF configIndex < Len(configs)
    THEN /\ configIndex' = configIndex + 1
         /\ pc' = "config"
         /\ UNCHANGED pathIndex
    ELSE /\ pc' = "done"
         /\ UNCHANGED <<configIndex, pathIndex>>

\* _rotate_path after the count pass: the age pass if its key is present.
AfterItemsPass ==
    IF Config.maximum_age # Absent
    THEN /\ pc' = "age_gather"
         /\ UNCHANGED <<configIndex, pathIndex>>
    ELSE AfterPath

\* _do_rotate / _rotate_paths: begin the loop over the config's paths.
RotatePaths ==
    /\ pc = "config"
    /\ IF Config.paths = <<>>
       THEN /\ IF configIndex < Len(configs)
               THEN configIndex' = configIndex + 1 /\ pc' = "config"
               ELSE pc' = "done" /\ UNCHANGED configIndex
            /\ UNCHANGED pathIndex
       ELSE /\ pathIndex' = 1
            /\ pc' = "path"
            /\ UNCHANGED configIndex
    /\ UNCHANGED <<globalDryRun, configs, fs, now, children, purge_count, queue,
                   loopIndex, pass, purgeLog, fs0, loadVars, utilVars>>

\* _rotate_path: the directory assertion and the dispatch on the keys.
RotatePath ==
    /\ pc = "path"
    /\ IF ~PathIsDir(Path) THEN pc' = "crashed"
       ELSE IF Config.maximum_items # Absent THEN pc' = "items_gather"
       ELSE IF Config.maximum_age # Absent THEN pc' = "age_gather"
       ELSE pc' = "crashed"
    /\ pass' = [NoPass EXCEPT
                 !.atPathStart = Len(GatherRotationCandidates(fs, Config, Path)),
                 !.prior = PriorPass]
    /\ UNCHANGED <<globalDryRun, configs, fs, now, configIndex, pathIndex, children,
                   purge_count, queue, loopIndex, purgeLog, fs0, loadVars, utilVars>>

PassRecord(kind, gathered, finished) ==
    [kind |-> kind, config |-> configIndex, path |-> Path, gathered |-> gathered,
     before |-> Existing(fs), atPathStart |-> pass.atPathStart, done |-> finished,
     prior |-> PriorPass]


\* The purge count that always goes down to the minimum.
PurgeCountToMinimum(n, max_items, minimum_items) == n - minimum_items

\* The purge count without the clamp by the minimum.
PurgeCountUnclamped(n, max_items, minimum_items) == n - max_items

\* The purge count of the count pass, clamped by the minimum.
PurgeCount(n, max_items, minimum_items) ==
    LET maximum_purge_count == n - minimum_items
        wanted == n - max_items
    IN IF wanted > maximum_purge_count THEN maximum_purge_count ELSE wanted

\* The two no-op checks of the count pass.
ItemsNoOp(n, max_items, minimum_items) ==
    n < minimum_items \/ n <= max_items

\* The purge loop as a whole: count times, pick the oldest of items and take
\* it off the list.
RECURSIVE PurgeLoop(_, _, _)
PurgeLoop(f, items, count) ==
    IF count <= 0 THEN <<>>
    ELSE LET item_to_purge == PickOldestItem(f, items)
         IN <<item_to_purge>> \o PurgeLoop(f, ListRemove(items, item_to_purge), count - 1)

\* _rotate_path_for_maximum_items up to the purge loop.
ItemsGather ==
    /\ pc = "items_gather"
    /\ LET cs == GatherRotationCandidates(fs, Config, Path)
           minimum_items == DetermineMinimumItems(Config)
           n == Len(cs)
           count == PurgeCount(n, Config.maximum_items, minimum_items)
       IN /\ children' = cs
          /\ queue' = <<>>
          /\ loopIndex' = 1
          /\ IF ItemsNoOp(n, Config.maximum_items, minimum_items)
             THEN /\ purge_count' = 0
                  /\ pass' = PassRecord("items", cs, TRUE)
                  /\ AfterItemsPass
             ELSE /\ purge_count' = count
                  /\ IF count > 0
                     THEN /\ pass' = PassRecord("items", cs, FALSE)
                          /\ pc' = "items_pick"
                          /\ UNCHANGED <<configIndex, pathIndex>>
                     ELSE /\ pass' = PassRecord("items", cs, TRUE)
                          /\ AfterItemsPass
    /\ UNCHANGED <<globalDryRun, configs, fs, now, purgeLog, fs0, loadVars, utilVars>>

\* One iteration of the purge loop: pick the oldest, take it off children,
\* queue it.
ItemsPick ==
    /\ pc = "items_pick"
    /\ IF children = <<>> \/ \E k \in 1..Len(children) : ~fs[children[k]].exists
       THEN /\ pc' = "crashed"
            /\ UNCHANGED <<children, queue, loopIndex>>
       ELSE LET item_to_purge == PickOldestItem(fs, children)
            IN /\ children' = ListRemove(children, item_to_purge)
               /\ queue' = Append(queue, item_to_purge)
               /\ loopIndex' = IF loopIndex < purge_count THEN loopIndex + 1 ELSE 1
               /\ pc' = IF loopIndex < purge_count THEN "items_pick" ELSE "items_remove"
    /\ UNCHANGED <<globalDryRun, configs, fs, now, configIndex, pathIndex, purge_count,
                   pass, purgeLog, fs0, loadVars, utilVars>>

\* One _remove_item call of a removal loop.
RemoveStep ==
    LET item == queue[loopIndex]
    IN IF RemoveItemRaises(fs, item)
       THEN /\ pc' = "crashed"
            /\ UNCHANGED <<fs, purgeLog, loopIndex, pass, configIndex, pathIndex>>
       ELSE /\ fs' = RemoveItem(fs, globalDryRun, Config, item)
            /\ purgeLog' = purgeLog \cup
                  {[config |-> configIndex, item |-> item,
                    deleted |-> Performs(globalDryRun, Config)]}
            /\ IF loopIndex < Len(queue)
               THEN /\ loopIndex' = loopIndex + 1
                    /\ UNCHANGED <<pc, pass, configIndex, pathIndex>>
               ELSE /\ loopIndex' = 1
                    /\ pass' = [pass EXCEPT !.done = TRUE]
                    /\ IF pc = "items_remove" THEN AfterItemsPass ELSE AfterPath

\* The removal loop of the count pass.
ItemsRemove ==
    /\ pc = "items_remove"
    /\ RemoveStep
    /\ UNCHANGED <<globalDryRun, configs, now, children, purge_count, queue, fs0, loadVars, utilVars>>


\* The age pass without its minimum check.
AgePassNeverNoOp(n, minimum_items) == FALSE

\* The minimum check of the age pass.
AgePassNoOp(n, minimum_items) == n < minimum_items

\* _rotate_path_for_maximum_age up to the examination loop; with no children
\* the loop has no iteration and the pass ends with nothing to remove.
AgeGather ==
    /\ pc = "age_gather"
    /\ LET cs == GatherRotationCandidates(fs, Config, Path)
           minimum_items == DetermineMinimumItems(Config)
       IN /\ children' = cs
          /\ queue' = <<>>
          /\ loopIndex' = 1
          /\ IF AgePassNoOp(Len(cs), minimum_items) \/ cs = <<>>
             THEN /\ pass' = PassRecord("age", cs, TRUE)
                  /\ AfterPath
             ELSE /\ pass' = PassRecord("age", cs, FALSE)
                  /\ pc' = "age_examine"
                  /\ UNCHANGED <<configIndex, pathIndex>>
    /\ UNCHANGED <<globalDryRun, configs, fs, now, purge_count, purgeLog, fs0, loadVars, utilVars>>

\* One iteration of the examination loop; after the last, the pass ends when
\* nothing is queued.
AgeExamine ==
    /\ pc = "age_examine"
    /\ LET child == children[loopIndex]
           q == IF OldEnough(DetectItemAgeDays(fs, now, child), Config.maximum_age)
                THEN Append(queue, child) ELSE queue
       IN IF ~fs[child].exists
          THEN /\ pc' = "crashed"
               /\ UNCHANGED <<queue, loopIndex, pass, configIndex, pathIndex>>
          ELSE /\ queue' = q
               /\ IF loopIndex < Len(children)
                  THEN /\ loopIndex' = loopIndex + 1
                       /\ UNCHANGED <<pc, pass, configIndex, pathIndex>>
                  ELSE /\ loopIndex' = 1
                       /\ IF Len(q) > 0
                          THEN /\ pc' = "age_remove"
                               /\ UNCHANGED <<pass, configIndex, pathIndex>>
                          ELSE /\ pass' = [pass EXCEPT !.done = TRUE]
                               /\ AfterPath
    /\ UNCHANGED <<globalDryRun, configs, fs, now, children, purge_count, purgeLog, fs0, loadVars, utilVars>>

\* The removal loop of the age pass.
AgeRemove ==
    /\ pc = "age_remove"
    /\ RemoveStep
    /\ UNCHANGED <<globalDryRun, configs, now, children, purge_count, queue, fs0, loadVars, utilVars>>

Next ==
    \/ Run
    \/ RotatePaths
    \/ RotatePath
    \/ ItemsGather
    \/ ItemsPick
    \/ ItemsRemove
    \/ AgeGather
    \/ AgeExamine
    \/ AgeRemove

\* Another process removes an entry between a pass's os.listdir and the
\* pass's last use of what it listed: os.path.getctime raises
\* FileNotFoundError for the entry, and os.path.isfile and os.path.isdir are
\* both False for it.
ExternalRemove ==
    /\ pc \in {"items_pick", "items_remove", "age_examine", "age_remove"}
    /\ \E i \in Existing(fs) : fs' = [fs EXCEPT ![i].exists = FALSE]
    /\ UNCHANGED <<globalDryRun, configs, now, pc, configIndex, pathIndex, children,
                   purge_count, queue, loopIndex, pass, purgeLog, fs0, loadVars, utilVars>>

NextRace ==
    \/ Run
    \/ RotatePaths
    \/ RotatePath
    \/ ItemsGather
    \/ ItemsPick
    \/ ItemsRemove
    \/ AgeGather
    \/ AgeExamine
    \/ AgeRemove
    \/ ExternalRemove

\* ------------------------------------------------------- the config loader
\* A YAML value: its Python type, its number (a bool counts 1 or 0) and its
\* text.
VAbsent == [t |-> "absent", i |-> 0, s |-> ""]
VNone == [t |-> "None", i |-> 0, s |-> ""]
VBool(b) == [t |-> "bool", i |-> IF b THEN 1 ELSE 0, s |-> ""]
VInt(n) == [t |-> "int", i |-> n, s |-> ""]
VStr(x) == [t |-> "str", i |-> 0, s |-> x]

\* isinstance(v, int): a Python bool is an int.
IsInstanceInt(v) == v.t \in {"int", "bool"}
IsInstanceBool(v) == v.t = "bool"
IsInstanceStr(v) == v.t = "str"
\* "key in options.keys()"
Has(v) == v.t # "absent"

VALID_TARGET_TYPES == {"file", "directory"}
VALID_DATE_DETECTION_TYPES == {"file"}

\* ConfigFile.__init__: the fields before _load and _consume.
ConfigFileDefaults ==
    [dry_run |-> VBool(TRUE), target_type |-> VNone, date_detection |-> VNone,
     rotatable_paths |-> <<>>, minimum_items |-> VInt(0),
     maximum_items |-> VNone, maximum_age |-> VNone]


\* The loader without the retention-key assertion.
RetentionRuleUnchecked(o) == TRUE

\* The assertion that a retention key is present.
RetentionRulePresent(o) == Has(o.maximum_items) \/ Has(o.maximum_age)

\* The check of the minimum-items value.
MinimumItemsValid(v) == IsInstanceInt(v)

\* The checks of the maximum-items value.
MaximumItemsValid(v) == IsInstanceInt(v) /\ v.i > 0

\* The checks of the maximum-age value.
MaximumAgeValid(v) == (v = VNone \/ IsInstanceInt(v)) /\ (v = VNone \/ v.i > 0)

\* The 'paths' value as a list: a single string becomes a one-element list.
PathsAsList(p) == IF p.t = "str" THEN <<"str">> ELSE p.elems

\* First assertion of _consume that fails on the document d, "" if none.
ConsumeError(d) ==
    LET o == d.options
    IN IF d.shape # "dict" THEN "Config file should be a dict!"
       ELSE IF ~d.has_options THEN "No options key found!"
       ELSE IF ~d.options_is_dict THEN "Options must be a dict"
       ELSE IF Has(o.dry_run) /\ ~IsInstanceBool(o.dry_run)
            THEN "dry-run setting must be boolean"
       ELSE IF Has(o.minimum_items) /\ ~MinimumItemsValid(o.minimum_items)
            THEN "Option minimum-items must be int"
       ELSE IF ~RetentionRulePresent(o)
            THEN "Options should include either maximum-items or maximum-age"
       ELSE IF Has(o.maximum_items) /\ ~MaximumItemsValid(o.maximum_items)
            THEN "Option maximum-items must be int and not zero"
       ELSE IF Has(o.maximum_age) /\ ~MaximumAgeValid(o.maximum_age)
            THEN "Option maximum-age must be None or an integer and not zero"
       ELSE IF ~Has(o.target_type) THEN "Option target-type is required"
       ELSE IF ~IsInstanceStr(o.target_type) THEN "Option target-type must be str"
       ELSE IF o.target_type.s \notin VALID_TARGET_TYPES
            THEN "Option target-type must be one of"
       ELSE IF ~Has(o.date_detection) THEN "Option date-detection is required."
       ELSE IF ~IsInstanceStr(o.date_detection) THEN "Option date-detection must be str"
       ELSE IF o.date_detection.s \notin VALID_DATE_DETECTION_TYPES
            THEN "Option date-detection must be one of"
       ELSE IF d.paths.t = "absent" THEN "Could not find 'paths' key"
       ELSE IF d.paths.t \notin {"str", "list"}
            THEN "Rotatable 'paths' key must be a string or list"
       ELSE IF \E k \in 1..Len(PathsAsList(d.paths)) : PathsAsList(d.paths)[k] # "str"
            THEN "All rotatable paths must be strings or pathlib::Path objects"
       ELSE ""

\* The fields _consume leaves when no assertion fails.
ConsumeFields(d, c) ==
    LET o == d.options
    IN [dry_run |-> IF Has(o.dry_run) THEN o.dry_run ELSE c.dry_run,
        minimum_items |-> IF Has(o.minimum_items) THEN o.minimum_items
                          ELSE c.minimum_items,
        maximum_items |-> IF Has(o.maximum_items) THEN o.maximum_items
                          ELSE c.maximum_items,
        maximum_age |-> IF Has(o.maximum_age) THEN o.maximum_age ELSE c.maximum_age,
        target_type |-> o.target_type,
        date_detection |-> o.date_detection,
        rotatable_paths |-> PathsAsList(d.paths)]

\* The documents a config file may hold.
DocIntChoices == {VInt(n) : n \in (0 - 1)..MaxDocInt}
OptionsChoices ==
    [dry_run : {VAbsent, VBool(TRUE), VBool(FALSE), VInt(1)},
     minimum_items : {VAbsent, VStr("x"), VBool(TRUE)} \cup DocIntChoices,
     maximum_items : {VAbsent, VNone, VStr("x")} \cup DocIntChoices,
     maximum_age : {VAbsent, VNone, VStr("x")} \cup DocIntChoices,
     target_type : {VAbsent, VStr("file"), VStr("directory"), VStr("x"), VInt(1)},
     date_detection : {VAbsent, VStr("file"), VStr("x")}]
PathsChoices ==
    {[t |-> "absent", elems |-> <<>>], [t |-> "str", elems |-> <<>>],
     [t |-> "int", elems |-> <<>>], [t |-> "list", elems |-> <<>>],
     [t |-> "list", elems |-> <<"str", "str">>],
     [t |-> "list", elems |-> <<"str", "int">>]}
NoOptions ==
    [dry_run |-> VAbsent, minimum_items |-> VAbsent, maximum_items |-> VAbsent,
     maximum_age |-> VAbsent, target_type |-> VAbsent, date_detection |-> VAbsent]
NoData ==
    [shape |-> "None", has_options |-> FALSE, options_is_dict |-> FALSE,
     options |-> NoOptions, paths |-> [t |-> "absent", elems |-> <<>>]]
DocChoices ==
    {NoData, [NoData EXCEPT !.shape = "list"]}
    \cup {[NoData EXCEPT !.shape = "dict", !.has_options = h, !.paths = p] :
            h \in BOOLEAN, p \in PathsChoices}
    \cup {[shape |-> "dict", has_options |-> TRUE, options_is_dict |-> TRUE,
           options |-> o, paths |-> p] : o \in OptionsChoices, p \in PathsChoices}

LoaderInit ==
    /\ data = NoData
    /\ cf = ConfigFileDefaults
    /\ lpc = "new"
    /\ error = ""

\* _load: parse the file; an empty document fails the assertion.
Load ==
    /\ lpc = "new"
    /\ \E d \in DocChoices :
        /\ data' = d
        /\ IF d.shape = "None"
           THEN lpc' = "failed" /\ error' = "Config file seems to be null or empty"
           ELSE lpc' = "consume" /\ UNCHANGED error
    /\ UNCHANGED <<cf, rotVars, utilVars>>

\* _consume
Consume ==
    /\ lpc = "consume"
    /\ error' = ConsumeError(data)
    /\ IF ConsumeError(data) = ""
       THEN lpc' = "loaded" /\ cf' = ConsumeFields(data, cf)
       ELSE lpc' = "failed" /\ UNCHANGED cf
    /\ UNCHANGED <<data, rotVars, utilVars>>

NextLoad ==
    \/ Load
    \/ Consume

\* ------------------------------------------------- the duration formatters
\* dt_map / map, in the order of its keys.
Units ==
    <<[label |-> "year", unit_seconds |-> 31536000],
      [label |-> "month", unit_seconds |-> 2592000],
      [label |-> "week", unit_seconds |-> 604800],
      [label |-> "day", unit_seconds |-> 86400],
      [label |-> "hour", unit_seconds |-> 3600],
      [label |-> "minute", unit_seconds |-> 60],
      [label |-> "second", unit_seconds |-> 1]>>

\* ", ".join(s_parts)
RECURSIVE JoinParts(_)
JoinParts(s_parts) ==
    IF s_parts = <<>> THEN ""
    ELSE IF Len(s_parts) = 1 THEN s_parts[1]
    ELSE s_parts[1] \o ", " \o JoinParts(Tail(s_parts))

\* The loop over the units from the k-th on; n is the float 'seconds', a
\* whole number small enough that the float arithmetic is exact.
RECURSIVE FormatParts(_, _)
FormatParts(n, k) ==
    IF k > Len(Units) THEN <<>>
    ELSE LET unit_seconds == Units[k].unit_seconds
             unit_count == n \div unit_seconds
             unit_plural == IF unit_count = 1 THEN "" ELSE "s"
         IN IF n >= unit_seconds
            THEN <<ToString(unit_count) \o " " \o Units[k].label \o unit_plural>>
                 \o FormatParts(n - unit_seconds * unit_count, k + 1)
            ELSE FormatParts(n, k + 1)

Returned(s) == [raised |-> "", s |-> s]
Raised(e) == [raised |-> e, s |-> ""]
NotCalled == Raised("not called")

\* Util.seconds_to_time_string: an int is converted by float(seconds).
UtilSecondsToTimeString(v) ==
    IF v.t = "float" THEN Returned(JoinParts(FormatParts(v.n, 1)))
    ELSE IF v.t = "int" THEN Returned(JoinParts(FormatParts(v.n, 1)))
    ELSE Raised("AssertionError")

\* BackupRotator.seconds_to_time_string: for an int it multiplies the type
\* float by 1.0, which raises TypeError.
RotatorSecondsToTimeString(v) ==
    IF v.t = "float" THEN Returned(JoinParts(FormatParts(v.n, 1)))
    ELSE IF v.t = "int" THEN Raised("TypeError")
    ELSE Raised("AssertionError")

\* Whole numbers of seconds: every sum of 0..MaxUnitCount of each unit.
RECURSIVE UnitSums(_)
UnitSums(k) ==
    IF k > Len(Units) THEN {0}
    ELSE {c * Units[k].unit_seconds + r : c \in 0..MaxUnitCount, r \in UnitSums(k + 1)}
SecondsChoices ==
    [t : {"int", "float"}, n : UnitSums(1)] \cup {[t |-> "str", n |-> 0]}

FormatterIdle ==
    /\ seconds = [t |-> "float", n |-> 0]
    /\ formatted = [util |-> NotCalled, rotator |-> NotCalled]

FormatterInit ==
    /\ seconds \in SecondsChoices
    /\ formatted = [util |-> NotCalled, rotator |-> NotCalled]

\* A call of Util.seconds_to_time_string(seconds).
FormatByUtil ==
    /\ formatted.util = NotCalled
    /\ formatted' = [formatted EXCEPT !.util = UtilSecondsToTimeString(seconds)]
    /\ UNCHANGED <<seconds, statItem, stamp, rotVars, loadVars>>

\* A call of BackupRotator.seconds_to_time_string(seconds).
FormatByRotator ==
    /\ formatted.rotator = NotCalled
    /\ formatted' = [formatted EXCEPT !.rotator = RotatorSecondsToTimeString(seconds)]
    /\ UNCHANGED <<seconds, statItem, stamp, rotVars, loadVars>>

NextFormat ==
    \/ FormatByUtil
    \/ FormatByRotator

\* ------------------------------------------------ creation-date detection
\* stat = None
NoStat == 0
\* The attributes os.stat_result has on the platform: st_ctime and st_mtime
\* everywhere, st_birthtime on some.
Platforms == {{"st_ctime", "st_mtime"}, {"st_ctime", "st_mtime", "st_birthtime"}}
Stamps == 1..MaxStamp

\* datetime.datetime.fromtimestamp
FromTimestamp(t) == [datetime |-> t]
NoStamp == [datetime |-> NoStat]

StampReturned(d) == [raised |-> "", stamp |-> d]
StampRaised(e) == [raised |-> e, stamp |-> NoStamp]
NotDetected == StampRaised("not called")


\* The try block taking the first attribute the platform has.
TryBlockFirstSupported(it) ==
    IF "st_ctime" \in it.supports THEN it.st_ctime
    ELSE IF "st_mtime" \in it.supports THEN it.st_mtime
    ELSE IF "st_birthtime" \in it.supports THEN it.st_birthtime
    ELSE NoStat

\* The try block: three assignments to stat in a row, left at the first
\* attribute that raises AttributeError.
TryBlock(it) ==
    IF "st_ctime" \notin it.supports THEN NoStat
    ELSE IF "st_mtime" \notin it.supports THEN it.st_ctime
    ELSE IF "st_birthtime" \notin it.supports THEN it.st_mtime
    ELSE it.st_birthtime

\* Util.detect_item_creation_date
DetectItemCreationDate(it) ==
    IF it.date_detection # "file" THEN StampRaised("AssertionError")
    ELSE IF ~it.exists THEN StampRaised("FileNotFoundError")
    ELSE IF TryBlock(it) = NoStat THEN StampRaised("TypeError")
    ELSE StampReturned(FromTimestamp(TryBlock(it)))

ItemChoices ==
    [exists : BOOLEAN, supports : Platforms, date_detection : {"file", "x"},
     st_ctime : Stamps, st_mtime : Stamps, st_birthtime : Stamps]

DetectionIdle ==
    /\ statItem = CHOOSE it \in ItemChoices : TRUE
    /\ stamp = NotDetected

DetectionInit ==
    /\ statItem \in ItemChoices
    /\ stamp = NotDetected

\* A call of Util.detect_item_creation_date(config, item).
DetectCreationDate ==
    /\ stamp = NotDetected
    /\ stamp' = DetectItemCreationDate(statItem)
    /\ UNCHANGED <<seconds, formatted, statItem, rotVars, loadVars>>

NextDetect ==
    \/ DetectCreationDate

\* ---------------------------------------------------------- specifications
vars == <<rotVars, loadVars, utilVars>>

\* A run of the rotator; no config file object is being constructed.
Init ==
    /\ RotatorInit
    /\ LoaderInit
    /\ FormatterIdle
    /\ DetectionIdle

Spec == Init /\ [][Next]_vars

\* Calls of the two duration formatters on one argument.
InitFormat ==
    /\ RotatorInit
    /\ fs = CHOOSE f \in FsChoices : TRUE
    /\ LoaderInit
    /\ FormatterInit
    /\ DetectionIdle

SpecFormat == InitFormat /\ [][NextFormat]_vars

\* A call of the creation-date detection on one item.
InitDetect ==
    /\ RotatorInit
    /\ fs = CHOOSE f \in FsChoices : TRUE
    /\ LoaderInit
    /\ FormatterIdle
    /\ DetectionInit

SpecDetect == InitDetect /\ [][NextDetect]_vars

\* A run of the rotator beside a process that removes entries.
SpecRace == Init /\ [][NextRace]_vars

\* The construction of one ConfigFile; the rotator has not begun.
InitLoad ==
    /\ RotatorInit
    /\ fs = CHOOSE f \in FsChoices : TRUE
    /\ LoaderInit
    /\ FormatterIdle
    /\ DetectionIdle

SpecLoad == InitLoad /\ [][NextLoad]_vars

\* ------------------------------------------------------------------ claims
PassConfig == configs[pass.config]
PassFinished(kind) == pass.kind = kind /\ pass.done /\ pc # "crashed"
AnyPassFinished == pass.kind # "none" /\ pass.done /\ pc # "crashed"
\* The candidates the pass's watched path holds now.
Remaining == GatherRotationCandidates(fs, PassConfig, pass.path)
NotSuppressed == ~globalDryRun /\ PassConfig.dry_run # "true"
Queued == SeqToSet(queue)
Gathered == SeqToSet(pass.gathered)
\* Age in whole days strictly greater than d.
OlderThanDays(i, d) == now - fs[i].ctime >= (d + 1) * SecondsPerDay

\* C1: after the count pass, after the age pass, and after both in sequence,
\* the watched path holds at least min(pre-pass candidate count,
\* minimumItems) candidates.
MinimumItemsFloor ==
    AnyPassFinished =>
        /\ Len(Remaining) >= Min(Len(pass.gathered), DetermineMinimumItems(PassConfig))
        /\ Len(Remaining) >= Min(pass.atPathStart, DetermineMinimumItems(PassConfig))

\* C2 as stated: after a count pass the remaining candidates number
\* max(maximumItems, minimumItems) when the pre-pass count exceeded
\* maximumItems and minimumItems <= maximumItems; in every other case the pass
\* deletes nothing.
CountPassResultAsStated ==
    (PassFinished("items") /\ NotSuppressed) =>
        IF /\ Len(pass.gathered) > PassConfig.maximum_items
           /\ DetermineMinimumItems(PassConfig) <= PassConfig.maximum_items
        THEN Len(Remaining) = Max(PassConfig.maximum_items,
                                  DetermineMinimumItems(PassConfig))
        ELSE Existing(fs) = pass.before

\* C2 amended: after a count pass the remaining candidates number
\* max(maximumItems, minimumItems) when the pre-pass count exceeded
\* maximumItems and was at least minimumItems; in every other case the pass
\* deletes nothing.
CountPassResult ==
    (PassFinished("items") /\ NotSuppressed) =>
        IF /\ Len(pass.gathered) > PassConfig.maximum_items
           /\ Len(pass.gathered) >= DetermineMinimumItems(PassConfig)
        THEN /\ Len(Remaining) = Max(PassConfig.maximum_items,
                                     DetermineMinimumItems(PassConfig))
             /\ SeqToSet(Remaining) \subseteq Gathered
        ELSE Existing(fs) = pass.before

\* A count pass that the minimum clamped: more candidates than the minimum,
\* the minimum above the maximum, and the minimum is what is left.
CountPassResultWitness ==
    /\ PassFinished("items") /\ NotSuppressed
    /\ DetermineMinimumItems(PassConfig) > PassConfig.maximum_items
    /\ Len(pass.gathered) > DetermineMinimumItems(PassConfig)
    /\ Len(Remaining) = DetermineMinimumItems(PassConfig)
    /\ Existing(fs) # pass.before

\* C3: every item the count pass queues for purge was created no later than
\* every candidate of the path the pass retains.
OldestFirst ==
    pass.kind = "items" =>
        \A p \in Queued : \A r \in Gathered \ Queued : fs[p].ctime <= fs[r].ctime

\* A finished count pass that purged an item listed after a retained, newer
\* one.
OldestFirstWitness ==
    /\ PassFinished("items")
    /\ \E p \in Queued : \E r \in Gathered \ Queued :
        fs[p].ctime < fs[r].ctime /\ r < p

\* C4: the age pass purges a candidate iff its age in whole days is strictly
\* greater than maximumAge and the pre-pass candidate count was at least
\* minimumItems; unless deletions are suppressed, exactly the purged
\* candidates are gone.
AgePassPurgesExactlyTheOld ==
    PassFinished("age") =>
        /\ \A c \in Gathered :
            c \in Queued <=>
                /\ OlderThanDays(c, PassConfig.maximum_age)
                /\ Len(pass.gathered) >= DetermineMinimumItems(PassConfig)
        /\ Queued \subseteq Gathered
        /\ NotSuppressed => \A c \in Gathered : fs[c].exists <=> c \notin Queued

\* A finished age pass that kept a candidate exactly maximumAge whole days
\* old (1.5 days against 1) and deleted an older one.
AgePassWitness ==
    /\ PassFinished("age") /\ NotSuppressed
    /\ \E c \in Gathered :
        /\ fs[c].exists
        /\ now - fs[c].ctime > PassConfig.maximum_age * SecondsPerDay
        /\ ~OlderThanDays(c, PassConfig.maximum_age)
    /\ \E c \in Gathered : ~fs[c].exists /\ OlderThanDays(c, PassConfig.maximum_age)

\* C5: in a run with the global dry-run flag set nothing is deleted.
GlobalDryRunDominates ==
    globalDryRun => fs = fs0

\* A global dry run in which a config with dry-run false and a config with
\* no dry-run key both reached a removal call.
GlobalDryRunWitness ==
    /\ globalDryRun
    /\ \E e \in purgeLog : configs[e.config].dry_run = "false"
    /\ \E e \in purgeLog : configs[e.config].dry_run = "absent"

\* C6: a pass that gathers fewer candidates than minimumItems removes
\* nothing.
BelowMinimumNoRemoval ==
    (pass.kind # "none" /\ Len(pass.gathered) < DetermineMinimumItems(PassConfig)) =>
        /\ pass.done
        /\ queue = <<>>
        /\ Existing(fs) = pass.before

\* A finished age pass, deletions not suppressed, that gathered fewer
\* candidates than the minimum, one of them older than maximumAge.
BelowMinimumWitness ==
    /\ PassFinished("age") /\ NotSuppressed
    /\ Len(pass.gathered) < DetermineMinimumItems(PassConfig)
    /\ \E c \in Gathered : OlderThanDays(c, PassConfig.maximum_age)

\* C7: without the global flag, a pass under a config whose dry-run is true
\* deletes nothing, and every item a pass queued under a config whose dry-run
\* is false is deleted.
ConfigDryRunSuppresses ==
    ~globalDryRun =>
        /\ \A e \in purgeLog :
            configs[e.config].dry_run = "false" => ~fs[e.item].exists
        /\ AnyPassFinished =>
            /\ PassConfig.dry_run = "true" => Existing(fs) = pass.before
            /\ PassConfig.dry_run = "false" => \A i \in Queued : ~fs[i].exists

\* One run in which a config with dry-run true left its selected item on disk
\* and a config with dry-run false deleted its selected item.
ConfigDryRunWitness ==
    /\ ~globalDryRun
    /\ AnyPassFinished
    /\ \E e \in purgeLog : configs[e.config].dry_run = "true" /\ fs[e.item].exists
    /\ \E e \in purgeLog : configs[e.config].dry_run = "false" /\ ~fs[e.item].exists

\* C8: a document whose options hold neither maximum-items nor maximum-age
\* never loads.
LoadRequiresRetentionRule ==
    lpc = "loaded" =>
        Has(data.options.maximum_items) \/ Has(data.options.maximum_age)

\* A document that is valid in every other key and fails on that assertion.
LoadRequiresRetentionRuleWitness ==
    /\ lpc = "failed"
    /\ error = "Options should include either maximum-items or maximum-age"
    /\ data.options.target_type = VStr("file")
    /\ data.options.date_detection = VStr("file")
    /\ data.options.minimum_items = VInt(1)
    /\ data.paths.t = "list"

\* C9: every loaded record has maximumItems or maximumAge set to a value.
LoadedHasRetentionValue ==
    lpc = "loaded" => cf.maximum_items # VNone \/ cf.maximum_age # VNone

\* C10: every loaded record has an integer minimumItems >= 0, 0 when the key
\* is omitted.
LoadedMinimumItemsNonNegative ==
    lpc = "loaded" =>
        /\ cf.minimum_items.t = "int"
        /\ cf.minimum_items.i >= 0
        /\ ~Has(data.options.minimum_items) => cf.minimum_items = VInt(0)

\* C11: a watched path that is not a directory ends only its own rotation:
\* the run never stops at it while later paths or configs are left.
MissingPathFailsOnlyItself ==
    ~(/\ pc = "crashed"
      /\ ~PathIsDir(Path)
      /\ pathIndex < Len(Config.paths) \/ configIndex < Len(configs))

\* Some candidate of the scan's list is gone from the directory.
CandidateVanished == \E c \in SeqToSet(children) : ~fs[c].exists

\* C12: a scan over candidates of which some have vanished does not crash;
\* what it picks still exists and is the oldest of the candidates that still
\* exist, and when all have vanished it picks nothing.
ScanSkipsVanishedCandidates ==
    [][(pc = "items_pick" /\ CandidateVanished /\ fs' = fs) =>
          /\ pc' # "crashed"
          /\ \A q \in SeqToSet(queue') \ SeqToSet(queue) :
                /\ fs[q].exists
                /\ \A c \in SeqToSet(children) :
                      fs[c].exists => fs[q].ctime <= fs[c].ctime]_vars

\* C13: a removal loop that comes to a queued item that has vanished skips it
\* and goes on with the rest of the batch.
BatchRemovalIsBestEffort ==
    [][(/\ pc \in {"items_remove", "age_remove"}
        /\ ~fs[queue[loopIndex]].exists
        /\ fs' = fs) =>
          /\ pc' # "crashed"
          /\ loopIndex < Len(queue) => pc' = pc /\ loopIndex' = loopIndex + 1]_vars

\* A run that deletes nothing reads the filesystem of its beginning in every
\* pass: the candidates and the purge list such a run decides for the pass.
DryGathered == GatherRotationCandidates(fs0, PassConfig, pass.path)
DryQueue ==
    LET n == Len(DryGathered)
        minimum_items == DetermineMinimumItems(PassConfig)
    IN IF pass.kind = "items"
       THEN IF ItemsNoOp(n, PassConfig.maximum_items, minimum_items) THEN <<>>
            ELSE PurgeLoop(fs0, DryGathered,
                           PurgeCount(n, PassConfig.maximum_items, minimum_items))
       ELSE IF AgePassNoOp(n, minimum_items) THEN <<>>
            ELSE SelectSeq(DryGathered, LAMBDA c :
                     OldEnough(DetectItemAgeDays(fs0, now, c), PassConfig.maximum_age))
\* The run is a dry run as a whole, or a live run as a whole.
WholeDryRun == globalDryRun
WholeLiveRun == ~globalDryRun /\ \A k \in 1..Len(configs) : configs[k].dry_run # "true"

\* C14: every pass of a live run examines the candidates and decides the
\* purge list that the same pass of the dry run from the same filesystem,
\* clock and configs does.
DryRunAndLiveRunDecideTheSame ==
    (AnyPassFinished /\ (WholeDryRun \/ WholeLiveRun)) =>
        /\ pass.gathered = DryGathered
        /\ queue = DryQueue

\* The pass on record is an age pass that came straight after an age pass of
\* the same config over the same watched path.
SecondAgePass ==
    /\ PassFinished("age")
    /\ pass.prior.kind = "age"
    /\ pass.prior.config = pass.config
    /\ pass.prior.path = pass.path

\* C15: an age pass that runs straight after an age pass of the same config
\* over the same watched path deletes nothing, and unless deletions are
\* suppressed it finds nothing to purge.
AgePassIdempotent ==
    SecondAgePass =>
        /\ Existing(fs) = pass.before
        /\ NotSuppressed => queue = <<>>

\* A second age pass after a first one that deleted an item and kept another,
\* which the second pass examined and kept again.
AgePassIdempotentWitness ==
    /\ SecondAgePass /\ NotSuppressed
    /\ pass.prior.deleted # {}
    /\ pass.gathered # <<>>
    /\ queue = <<>>

\* The greedy breakdown: the count of each unit, largest unit first.
RECURSIVE GreedyCounts(_, _)
GreedyCounts(n, k) ==
    IF k > Len(Units) THEN <<>>
    ELSE <<n \div Units[k].unit_seconds>> \o GreedyCounts(n % Units[k].unit_seconds, k + 1)
\* Its text: the units with a non-zero count, singular for a count of 1.
RECURSIVE GreedyText(_, _, _)
GreedyText(counts, k, sep) ==
    IF k > Len(counts) THEN ""
    ELSE IF counts[k] = 0 THEN GreedyText(counts, k + 1, sep)
    ELSE sep \o ToString(counts[k]) \o " " \o Units[k].label
         \o (IF counts[k] = 1 THEN "" ELSE "s") \o GreedyText(counts, k + 1, ", ")
Greedy(n) == GreedyText(GreedyCounts(n, 1), 1, "")
FormatsAsGreedy(r) ==
    /\ r = Returned(Greedy(seconds.n))
    /\ seconds.n = 90061 => r.s = "1 day, 1 hour, 1 minute, 1 second"
    /\ seconds.n = 0 => r.s = ""

\* C16: given a non-negative whole number of seconds as an integer, each
\* duration formatter returns the greedy breakdown over the seven units; 90061
\* gives "1 day, 1 hour, 1 minute, 1 second" and 0 gives the empty string.
FormatterReturnsGreedyBreakdown ==
    seconds.t = "int" =>
        /\ formatted.util # NotCalled => FormatsAsGreedy(formatted.util)
        /\ formatted.rotator # NotCalled => FormatsAsGreedy(formatted.rotator)

\* The detection returned a date.
DateDetected == stamp.raised = ""

\* C18 as stated: the detection returns the first of creation, modification
\* and birth time that the platform supports, so on a platform that exposes
\* creation time the detected date is the creation time.
DetectsFirstSupported ==
    (DateDetected /\ "st_ctime" \in statItem.supports) =>
        stamp.stamp = FromTimestamp(statItem.st_ctime)

\* C18 amended: the detection reads creation, modification and birth time in
\* that order, each replacing the one before, up to the first the platform
\* lacks: the detected date is the birth time where the platform exposes it
\* and the modification time where it does not.
DetectsLastSupported ==
    DateDetected =>
        stamp.stamp = FromTimestamp(IF "st_birthtime" \in statItem.supports
                                    THEN statItem.st_birthtime
                                    ELSE statItem.st_mtime)

\* A detection on a platform without birth time, on an item whose creation
\* and modification times differ, that returned the modification time.
DetectsLastSupportedWitness ==
    /\ DateDetected
    /\ "st_birthtime" \notin statItem.supports
    /\ statItem.st_ctime # statItem.st_mtime
    /\ stamp.stamp = FromTimestamp(statItem.st_mtime)

\* The count pass on record got past its two no-op checks.
PastNoOpChecks ==
    /\ PassFinished("items")
    /\ Len(pass.gathered) >= DetermineMinimumItems(PassConfig)
    /\ Len(pass.gathered) > PassConfig.maximum_items

\* C17: a count pass past its two no-op checks queues exactly
\* min(n - maximumItems, n - minimumItems) different items; with minimumItems
\* above maximumItems and n above minimumItems it purges n - minimumItems and
\* leaves minimumItems.
PurgeCountIsClampedMinimum ==
    PastNoOpChecks =>
        LET n == Len(pass.gathered)
            minimum_items == DetermineMinimumItems(PassConfig)
        IN /\ Len(queue) = Min(n - PassConfig.maximum_items, n - minimum_items)
           /\ Cardinality(Queued) = Len(queue)
           /\ Queued \subseteq Gathered
           /\ (minimum_items > PassConfig.maximum_items /\ n > minimum_items) =>
                 /\ Len(queue) = n - minimum_items
                 /\ NotSuppressed => Len(Remaining) = minimum_items

\* A count pass whose purge count the minimum reduced: fewer items queued
\* than the maximum alone asks for, and at least one.
PurgeCountWitness ==
    /\ PastNoOpChecks
    /\ Len(queue) = Len(pass.gathered) - DetermineMinimumItems(PassConfig)
    /\ Len(queue) < Len(pass.gathered) - PassConfig.maximum_items
    /\ Len(queue) > 0

====
